---- MODULE Spec2Model ----
(***************************************************************************)
(* The kernel-status item of the status bar                                *)
(* (src/src/defaults/kernelStatus.tsx): the KernelStatus widget, its       *)
(* KernelStatus.Model, and the host objects they are wired to (the two     *)
(* panel trackers, the application shell, the command registry and the     *)
(* client sessions of the panels).                                         *)
(*                                                                         *)
(* Every handler of the source is one atomic action: the host's signal     *)
(* dispatch is synchronous and single-threaded.  Text is modelled as a     *)
(* sequence of one-character strings so that toLowerCase and titleCase     *)
(* are computed, character by character.                                   *)
(***************************************************************************)
EXTENDS Naturals, Sequences, FiniteSets

VARIABLES
    shellCurrent,   \* ApplicationShell.currentWidget
    sessions,       \* the host's client sessions: status, kernel, kernelDisplayName
    model,          \* KernelStatus.Model: _session, _kernelName, _kernelStatus,
                    \* the sessions its two handlers are connected to, and the
                    \* stateChanged emissions of the running handler
    interactive,    \* the widget carries the interactiveItem class
    hostConn,       \* host signals the widget's handlers are connected to
    disposed,       \* Widget.isDisposed
    updatePending,  \* an update-request message is posted for the widget
    lastEvent,      \* the event dispatched by the last step
    invoked,        \* handlers of the component the last step ran
    commandsRun,    \* commands the last step executed
    rendered,       \* label the last step rendered (NoText: it rendered nothing)
    everAttached,   \* history: sessions that were attached to the model
    lastKnown,      \* history: what the attached session last handed over
    updateRun       \* history: parity of the number of update requests handled
                    \* in a row since the last host, session or user event

vars == <<shellCurrent, sessions, model, interactive, hostConn, disposed,
          updatePending, lastEvent, invoked, commandsRun, rendered,
          everAttached, lastKnown, updateRun>>

-----------------------------------------------------------------------------
(* Text *)

NoText == <<>>

UpperChars == <<"A","B","C","D","E","F","G","H","I","J","K","L","M",
                "N","O","P","Q","R","S","T","U","V","W","X","Y","Z">>
LowerChars == <<"a","b","c","d","e","f","g","h","i","j","k","l","m",
                "n","o","p","q","r","s","t","u","v","w","x","y","z">>

LowerChar(c) ==
    IF \E i \in DOMAIN UpperChars : UpperChars[i] = c
    THEN LowerChars[CHOOSE i \in DOMAIN UpperChars : UpperChars[i] = c]
    ELSE c

UpperChar(c) ==
    IF \E i \in DOMAIN LowerChars : LowerChars[i] = c
    THEN UpperChars[CHOOSE i \in DOMAIN LowerChars : LowerChars[i] = c]
    ELSE c

\* mutant: the text is stored as given
ToLowerCaseIdentity(str) == str

ToLowerCase(str) == [i \in DOMAIN str |-> LowerChar(str[i])]

\* TextExt.titleCase: lower-case the text, then capitalise the first letter
\* of every space-separated word.
TitleCase(str) ==
    LET low == ToLowerCase(str)
    IN  [i \in DOMAIN low |->
            IF i = 1 \/ low[i - 1] = " " THEN UpperChar(low[i]) ELSE low[i]]

sUnknown == <<"u","n","k","n","o","w","n">>
sIdle    == <<"i","d","l","e">>
sBusy    == <<"b","u","s","y">>

Statuses == {sUnknown, sIdle, sBusy}

kPython3 == <<"p","y","t","h","o","n","3">>

KernelNames == {kPython3}
NoKernel == <<>>

dPython3  == <<"P","y","t","h","o","n"," ","3">>
dNoKernel == <<"N","o"," ","K","e","r","n","e","l","!">>

\* kernelDisplayName of a session whose kernel is k
DisplayNameOf(k) == dPython3

\* kernelDisplayName a session reports while it has no kernel (host-defined)
NoKernelDisplayNames == {dNoKernel}

ChangeKernelCommand ==
    <<"n","o","t","e","b","o","o","k",":","c","h","a","n","g","e","-",
      "k","e","r","n","e","l">>

LabelUnknownUnknown ==
    <<"U","n","k","n","o","w","n"," ","|"," ","U","n","k","n","o","w","n">>

-----------------------------------------------------------------------------
(* Host objects *)

None == "none"

NotebookPanels == {"nbA"}
ConsolePanels  == {"conB"}
OtherWidgets   == {"editor"}
Widgets        == NotebookPanels \cup ConsolePanels \cup OtherWidgets

Sessions == {"sA", "sC"}

\* panel.session
PanelSession(panel) == IF panel = "nbA" THEN "sA" ELSE "sC"

\* session.type
SessionType(s) == IF s = "sA" THEN "notebook" ELSE "console"

SessionStates ==
    { r \in [status : Statuses,
             kernel : KernelNames \cup {NoKernel},
             kernelDisplayName : {dPython3} \cup NoKernelDisplayNames] :
        IF r.kernel = NoKernel
        THEN r.kernelDisplayName \in NoKernelDisplayNames
        ELSE r.kernelDisplayName = DisplayNameOf(r.kernel) }

HostSignals == {"notebook", "console", "shell"}

-----------------------------------------------------------------------------
(* KernelStatus.Model *)

NewModel ==
    [session |-> None, name |-> sUnknown, status |-> sUnknown,
     statusConn |-> {}, kernelConn |-> {}, notified |-> <<>>]

\* what a stateChanged listener can read from the model when it is notified
Snapshot(m) ==
    [session |-> m.session, name |-> m.name, status |-> m.status,
     statusConn |-> m.statusConn, kernelConn |-> m.kernelConn]

\* this.stateChanged.emit(void 0)
Emit(m) == [m EXCEPT !.notified = Append(@, Snapshot(m))]

\* get type()
Type(m) == IF m.session = None THEN None ELSE SessionType(m.session)

\* mutant: the previous session is never detached
DisconnectOldSkipped(m) == m

\* mutant: only statusChanged is disconnected from the previous session
DisconnectOldStatusOnly(m) ==
    IF m.session # None
    THEN [m EXCEPT !.statusConn = @ \ {m.session}]
    ELSE m

\* set session(session), lines 184-190
DisconnectOld(m) ==
    IF m.session # None
    THEN [m EXCEPT !.statusConn = @ \ {m.session},
                   !.kernelConn = @ \ {m.session}]
    ELSE m

\* mutant: a null session leaves the stored name and status as they were
ReadSessionKeepsOnNone(m, sess) ==
    IF m.session = None
    THEN m
    ELSE [m EXCEPT !.status = sess[m.session].status,
                   !.name = ToLowerCase(sess[m.session].kernelDisplayName),
                   !.statusConn = @ \cup {m.session},
                   !.kernelConn = @ \cup {m.session}]

\* set session(session), lines 194-205
ReadSession(m, sess) ==
    IF m.session = None
    THEN [m EXCEPT !.status = sUnknown, !.name = sUnknown]
    ELSE [m EXCEPT !.status = sess[m.session].status,
                   !.name = ToLowerCase(sess[m.session].kernelDisplayName),
                   !.statusConn = @ \cup {m.session},
                   !.kernelConn = @ \cup {m.session}]

\* mutant: stateChanged is emitted before the fields are updated
SetSessionEmitFirst(m, s, sess) ==
    LET m0 == Emit(m)
        m1 == DisconnectOld(m0)
        m2 == [m1 EXCEPT !.session = s]
    IN  ReadSession(m2, sess)

\* mutant: the previous session is detached after the new one is attached
SetSessionDisconnectLast(m, s, sess) ==
    LET m1 == ReadSession([m EXCEPT !.session = s], sess)
        m2 == IF m.session # None
              THEN [m1 EXCEPT !.statusConn = @ \ {m.session},
                              !.kernelConn = @ \ {m.session}]
              ELSE m1
    IN  Emit(m2)

SetSession(m, s, sess) ==
    LET m1 == DisconnectOld(m)
        m2 == [m1 EXCEPT !.session = s]
        m3 == ReadSession(m2, sess)
    IN  Emit(m3)

\* mutant: the new status is stored without a notification
OnKernelStatusChangedSilent(m, status) == [m EXCEPT !.status = status]

OnKernelStatusChanged(m, status) ==
    Emit([m EXCEPT !.status = status])

\* mutant: a null kernel resets the status only
OnKernelChangedKeepsName(m, kernelName, kernelStatus) ==
    IF kernelName # NoKernel
    THEN Emit([m EXCEPT !.status = kernelStatus,
                        !.name = ToLowerCase(kernelName)])
    ELSE Emit([m EXCEPT !.status = sUnknown])

OnKernelChanged(m, kernelName, kernelStatus) ==
    IF kernelName # NoKernel
    THEN Emit([m EXCEPT !.status = kernelStatus,
                        !.name = ToLowerCase(kernelName)])
    ELSE Emit([m EXCEPT !.status = sUnknown, !.name = sUnknown])

-----------------------------------------------------------------------------
(* KernelStatus *)

GetFocusedSession(val) ==
    IF val = None THEN None
    ELSE IF val \in NotebookPanels THEN PanelSession(val)
    ELSE IF val \in ConsolePanels THEN PanelSession(val)
    ELSE None

\* panel && panel.session
PanelSessionOrNull(panel) == IF panel = None THEN None ELSE PanelSession(panel)

\* the widget's own state, as the handlers read and write it
WidgetState(m, cls) ==
    [model |-> m, interactive |-> cls, commands |-> <<>>, label |-> NoText]

\* mutant: the class follows the type, as in onUpdateRequest
OnNotebookChangeByType(w, panel, sess) ==
    LET m == SetSession(w.model, PanelSessionOrNull(panel), sess)
    IN  [w EXCEPT !.model = m, !.interactive = (Type(m) = "notebook")]

OnNotebookChange(w, panel, sess) ==
    [w EXCEPT !.model = SetSession(w.model, PanelSessionOrNull(panel), sess),
              !.interactive = TRUE]

OnConsoleChange(w, panel, sess) ==
    [w EXCEPT !.model = SetSession(w.model, PanelSessionOrNull(panel), sess),
              !.interactive = FALSE]

OnMainAreaCurrentChange(w, newValue, sess) ==
    [w EXCEPT !.model = SetSession(w.model, GetFocusedSession(newValue), sess)]

\* mutant: the command is executed whatever the type
HandleClickAlways(w) ==
    [w EXCEPT !.commands = Append(@, ChangeKernelCommand)]

HandleClick(w) ==
    IF Type(w.model) = "notebook"
    THEN [w EXCEPT !.commands = Append(@, ChangeKernelCommand)]
    ELSE w

\* mutant: the label shows the stored texts as they are
LabelRaw(name, status) == name \o <<" ", "|", " ">> \o status

\* KernelStatusComponent: the source of the TextItem
Label(name, status) == TitleCase(name) \o <<" ", "|", " ">> \o TitleCase(status)

\* this.model === null
NoModel == [absent |-> TRUE]

\* render(): NoText stands for null, nothing rendered
Render(m) == IF m = NoModel THEN NoText ELSE Label(m.name, m.status)

\* mutant: the class is only ever added
OnUpdateRequestAddsOnly(w, current, sess) ==
    LET m == SetSession(w.model, GetFocusedSession(current), sess)
    IN  [w EXCEPT !.model = m,
                  !.interactive = (w.interactive \/ Type(m) = "notebook"),
                  !.label = Render(m)]

OnUpdateRequest(w, current, sess) ==
    LET m == SetSession(w.model, GetFocusedSession(current), sess)
    IN  [w EXCEPT !.model = m,
                  !.interactive = (Type(m) = "notebook"),
                  !.label = Render(m)]

\* mutant: the shell's currentChanged is left connected
DisposeConnectionsKeepsShell(conn) == conn \ {"notebook", "console"}

\* dispose(): the host signals still connected afterwards
DisposeConnections(conn) == conn \ {"notebook", "console", "shell"}

-----------------------------------------------------------------------------
(* Events *)

\* kind: the signal or message dispatched; widget: the widget it carries;
\* sess: the emitting session, or for an event that sets the model's session
\* the session attached before it (oldSession); text: the status or kernel
\* name carried; old: the kernel replaced.
Event(kind, widget, sess, text, old) ==
    [kind |-> kind, widget |-> widget, sess |-> sess, text |-> text, old |-> old]

NoSource == [status |-> NoText, name |-> NoText]

\* what the session s hands to the setter that attaches it
SourceRead(s, sess) ==
    IF s = None THEN NoSource
    ELSE [status |-> sess[s].status, name |-> sess[s].kernelDisplayName]

\* the model with the emissions of the previous handler forgotten
M0 == [model EXCEPT !.notified = <<>>]

\* VDomRenderer: model.stateChanged is connected to the widget's update()
UpdateAfter(m) ==
    IF disposed THEN FALSE
    ELSE updatePending \/ m.notified # <<>>

Init ==
    /\ shellCurrent \in Widgets \cup {None}
    /\ sessions \in [Sessions -> SessionStates]
    /\ model = SetSession(NewModel, GetFocusedSession(shellCurrent), sessions)
    /\ interactive = (Type(model) = "notebook")
    /\ hostConn = HostSignals
    /\ disposed = FALSE
    /\ updatePending = TRUE
    /\ lastEvent = Event("constructor", shellCurrent, None, NoText, NoText)
    /\ invoked = {}
    /\ commandsRun = <<>>
    /\ rendered = NoText
    /\ everAttached = {model.session} \ {None}
    /\ lastKnown = SourceRead(model.session, sessions)
    /\ updateRun = 0

\* a handler of the widget that sets the model's session has run
Apply(w, name) ==
    /\ model' = w.model
    /\ interactive' = w.interactive
    /\ commandsRun' = w.commands
    /\ rendered' = w.label
    /\ invoked' = {name}
    /\ everAttached' = everAttached \cup ({w.model.session} \ {None})
    /\ lastKnown' = SourceRead(w.model.session, sessions)

\* the signal had no handler of the component connected
NotHandled ==
    /\ model' = M0
    /\ invoked' = {}
    /\ commandsRun' = <<>>
    /\ rendered' = NoText
    /\ UNCHANGED <<interactive, everAttached, lastKnown>>

NotebookCurrentChanged(panel) ==
    /\ lastEvent' = Event("notebookChanged", panel, model.session, NoText, NoText)
    /\ UNCHANGED <<shellCurrent, sessions, hostConn, disposed>>
    /\ IF "notebook" \in hostConn
       THEN Apply(OnNotebookChange(WidgetState(M0, interactive), panel, sessions),
                  "_onNotebookChange")
       ELSE NotHandled
    /\ updatePending' = UpdateAfter(model')
    /\ updateRun' = 0

ConsoleCurrentChanged(panel) ==
    /\ lastEvent' = Event("consoleChanged", panel, model.session, NoText, NoText)
    /\ UNCHANGED <<shellCurrent, sessions, hostConn, disposed>>
    /\ IF "console" \in hostConn
       THEN Apply(OnConsoleChange(WidgetState(M0, interactive), panel, sessions),
                  "_onConsoleChange")
       ELSE NotHandled
    /\ updatePending' = UpdateAfter(model')
    /\ updateRun' = 0

ShellCurrentChanged(newValue) ==
    /\ newValue # shellCurrent
    /\ shellCurrent' = newValue
    /\ lastEvent' = Event("shellChanged", newValue, model.session, NoText, NoText)
    /\ UNCHANGED <<sessions, hostConn, disposed>>
    /\ IF "shell" \in hostConn
       THEN Apply(OnMainAreaCurrentChange(WidgetState(M0, interactive),
                                          newValue, sessions),
                  "_onMainAreaCurrentChange")
       ELSE NotHandled
    /\ updatePending' = UpdateAfter(model')
    /\ updateRun' = 0

SessionStatusChanged(s, status) ==
    /\ sessions' = [sessions EXCEPT ![s].status = status]
    /\ lastEvent' = Event("statusChanged", None, s, status, NoText)
    /\ UNCHANGED <<shellCurrent, hostConn, disposed, interactive, everAttached>>
    /\ commandsRun' = <<>>
    /\ rendered' = NoText
    /\ IF s \in model.statusConn
       THEN /\ model' = OnKernelStatusChanged(M0, status)
            /\ invoked' = {"_onKernelStatusChanged"}
            /\ lastKnown' = [lastKnown EXCEPT !.status = status]
       ELSE /\ model' = M0
            /\ invoked' = {}
            /\ UNCHANGED lastKnown
    /\ updatePending' = UpdateAfter(model')
    /\ updateRun' = 0

SessionKernelChanged(s, kernelName, kernelStatus, display) ==
    /\ IF kernelName = NoKernel
       THEN display \in NoKernelDisplayNames
       ELSE display = DisplayNameOf(kernelName)
    /\ sessions' = [sessions EXCEPT ![s] =
                      [status |-> kernelStatus, kernel |-> kernelName,
                       kernelDisplayName |-> display]]
    /\ lastEvent' = Event("kernelChanged", None, s, kernelName, sessions[s].kernel)
    /\ UNCHANGED <<shellCurrent, hostConn, disposed, interactive, everAttached>>
    /\ commandsRun' = <<>>
    /\ rendered' = NoText
    /\ IF s \in model.kernelConn
       THEN /\ model' = OnKernelChanged(M0, kernelName, kernelStatus)
            /\ invoked' = {"_onKernelChanged"}
            /\ lastKnown' = IF kernelName = NoKernel THEN NoSource
                            ELSE [status |-> kernelStatus, name |-> kernelName]
       ELSE /\ model' = M0
            /\ invoked' = {}
            /\ UNCHANGED lastKnown
    /\ updatePending' = UpdateAfter(model')
    /\ updateRun' = 0

UpdateRequest ==
    /\ updatePending
    /\ ~disposed
    /\ lastEvent' = Event("update", shellCurrent, model.session, NoText, NoText)
    /\ UNCHANGED <<shellCurrent, sessions, hostConn, disposed>>
    /\ Apply(OnUpdateRequest(WidgetState(M0, interactive), shellCurrent, sessions),
             "onUpdateRequest")
    /\ updatePending' = (model'.notified # <<>>)
    /\ updateRun' = (updateRun + 1) % 2

Click ==
    /\ ~disposed
    /\ lastEvent' = Event("click", None, None, NoText, NoText)
    /\ UNCHANGED <<shellCurrent, sessions, hostConn, disposed, updatePending,
                   everAttached, lastKnown>>
    /\ LET w == HandleClick(WidgetState(M0, interactive))
       IN  /\ model' = w.model
           /\ interactive' = w.interactive
           /\ commandsRun' = w.commands
           /\ rendered' = w.label
    /\ invoked' = {"_handleClick"}
    /\ updateRun' = 0

Dispose ==
    /\ ~disposed
    /\ disposed' = TRUE
    /\ updatePending' = FALSE
    /\ hostConn' = DisposeConnections(hostConn)
    /\ lastEvent' = Event("dispose", None, None, NoText, NoText)
    /\ model' = M0
    /\ invoked' = {}
    /\ commandsRun' = <<>>
    /\ rendered' = NoText
    /\ UNCHANGED <<shellCurrent, sessions, interactive, everAttached, lastKnown>>
    /\ updateRun' = 0

Next ==
    \/ \E panel \in NotebookPanels \cup {None} : NotebookCurrentChanged(panel)
    \/ \E panel \in ConsolePanels \cup {None} : ConsoleCurrentChanged(panel)
    \/ \E newValue \in Widgets \cup {None} : ShellCurrentChanged(newValue)
    \/ \E s \in Sessions, status \in Statuses : SessionStatusChanged(s, status)
    \/ \E s \in Sessions, kernelName \in KernelNames \cup {NoKernel},
          kernelStatus \in Statuses, display \in {dPython3} \cup NoKernelDisplayNames :
          SessionKernelChanged(s, kernelName, kernelStatus, display)
    \/ UpdateRequest
    \/ Click
    \/ Dispose

Spec == Init /\ [][Next]_vars

-----------------------------------------------------------------------------
(* One focus change after construction, and otherwise only the widget's own
   update requests: no further host event and no session event. *)

FocusChange ==
    \/ \E panel \in NotebookPanels \cup {None} : NotebookCurrentChanged(panel)
    \/ \E panel \in ConsolePanels \cup {None} : ConsoleCurrentChanged(panel)
    \/ \E newValue \in Widgets \cup {None} : ShellCurrentChanged(newValue)

SingleFocusChange ==
    /\ lastEvent.kind = "constructor"
    /\ FocusChange

\* an update request handled after the focus change
UpdateAfterFocusChange ==
    /\ lastEvent.kind # "constructor"
    /\ UpdateRequest

QuiesceNext ==
    \/ SingleFocusChange
    \/ UpdateAfterFocusChange

QuiesceSpec == Init /\ [][QuiesceNext]_vars

-----------------------------------------------------------------------------
(* render() as a function of the model: every stored name and every
   Kernel.Status, and the absent model *)

sStarting     == <<"s","t","a","r","t","i","n","g">>
sReconnecting == <<"r","e","c","o","n","n","e","c","t","i","n","g">>
sRestarting   == <<"r","e","s","t","a","r","t","i","n","g">>
sDead         == <<"d","e","a","d">>
sConnected    == <<"c","o","n","n","e","c","t","e","d">>

KernelStatuses ==
    Statuses \cup {sStarting, sReconnecting, sRestarting, sDead, sConnected}

nPython3Display == <<"p","y","t","h","o","n"," ","3">>
nNoKernel       == <<"n","o"," ","k","e","r","n","e","l","!">>
nIr             == <<"i","r">>
nJulia          == <<"j","u","l","i","a"," ","1",".","0">>
nSos            == <<"s","o","s"," "," ","k","e","r","n","e","l">>

\* names as the model stores them (lower case)
StoredNames == {sUnknown, kPython3, nPython3Display, nNoKernel, nIr, nJulia, nSos}

QuietSessions ==
    [s \in Sessions |->
        [status |-> sUnknown, kernel |-> NoKernel, kernelDisplayName |-> dNoKernel]]

RenderInit ==
    /\ model \in {NoModel} \cup
                 { [NewModel EXCEPT !.name = n, !.status = st] :
                       n \in StoredNames, st \in KernelStatuses }
    /\ shellCurrent = None
    /\ sessions = QuietSessions
    /\ interactive = FALSE
    /\ hostConn = HostSignals
    /\ disposed = FALSE
    /\ updatePending = FALSE
    /\ lastEvent = Event("constructor", None, None, NoText, NoText)
    /\ invoked = {}
    /\ commandsRun = <<>>
    /\ rendered = NoText
    /\ everAttached = {}
    /\ lastKnown = NoSource
    /\ updateRun = 0

RenderStep ==
    /\ lastEvent.kind # "render"
    /\ rendered' = Render(model)
    /\ lastEvent' = Event("render", None, None, NoText, NoText)
    /\ UNCHANGED <<shellCurrent, sessions, model, interactive, hostConn, disposed,
                   updatePending, invoked, commandsRun, everAttached, lastKnown,
                   updateRun>>

RenderNext == RenderStep

RenderSpec == RenderInit /\ [][RenderNext]_vars

TypeOK ==
    /\ shellCurrent \in Widgets \cup {None}
    /\ sessions \in [Sessions -> SessionStates]
    /\ model.session \in Sessions \cup {None}
    /\ interactive \in BOOLEAN
    /\ hostConn \subseteq HostSignals
    /\ disposed \in BOOLEAN
    /\ updatePending \in BOOLEAN

-----------------------------------------------------------------------------
(* Properties *)

FocusEvents == {"notebookChanged", "consoleChanged", "shellChanged"}
SetterHandlers == {"_onNotebookChange", "_onConsoleChange",
                   "_onMainAreaCurrentChange", "onUpdateRequest"}
SessionEvents == {"statusChanged", "kernelChanged"}

\* the session of the shell's current widget, if it is a panel
FocusedPanelSession ==
    IF shellCurrent \in NotebookPanels \cup ConsolePanels
    THEN PanelSession(shellCurrent)
    ELSE None

SameModelFields(m1, m2) ==
    /\ m1.session = m2.session
    /\ m1.name = m2.name
    /\ m1.status = m2.status
    /\ m1.statusConn = m2.statusConn
    /\ m1.kernelConn = m2.kernelConn

\* C1: after every focus event the component handles (notebook tracker,
\* console tracker or shell current-changed), the model's session is the
\* session of the shell's current widget when that is a notebook or console
\* panel, and none otherwise.
C1_SessionFollowsFocus ==
    (lastEvent.kind \in FocusEvents /\ invoked # {})
        => model.session = FocusedPanelSession

\* C2: the model's statusChanged and kernelChanged handlers are connected to
\* at most one session, and that session is the model's current session.
C2_AtMostOneObserved ==
    /\ Cardinality(model.statusConn \cup model.kernelConn) <= 1
    /\ model.statusConn \cup model.kernelConn \subseteq {model.session} \ {None}

\* C2 witness: the console session is observed after the notebook session was.
C2_Witness ==
    /\ model.session = "sC"
    /\ "sA" \in everAttached
    /\ model.statusConn = {"sC"}
    /\ model.kernelConn = {"sC"}

\* C3: a statusChanged or kernelChanged notification of a session that was
\* attached earlier and is not the attached one runs no handler of the model,
\* leaves session, name and status as they are and emits no stateChanged.
C3_DetachedSessionIgnored ==
    [][ (/\ lastEvent'.kind \in SessionEvents
         /\ lastEvent'.sess \in everAttached
         /\ lastEvent'.sess # model.session)
        => (/\ invoked' = {}
            /\ SameModelFields(model', model)
            /\ model'.notified = <<>>) ]_vars

\* C3 witness: the notebook session, detached in favour of the console
\* session, has just emitted kernelChanged.
C3_Witness ==
    /\ lastEvent.kind = "kernelChanged"
    /\ lastEvent.sess = "sA"
    /\ "sA" \in everAttached
    /\ model.session = "sC"

\* the lower-case form of each name a session can hand over, written out
LowerCaseForm(name) ==
    IF name = dPython3 THEN <<"p","y","t","h","o","n"," ","3">>
    ELSE IF name = dNoKernel THEN <<"n","o"," ","k","e","r","n","e","l","!">>
    ELSE IF name = kPython3 THEN <<"p","y","t","h","o","n","3">>
    ELSE NoText

\* C4: name and status are the attached session's last known values: the
\* "unknown" defaults when no session is attached (or the last kernel handed
\* over was none), otherwise the status last handed over and the lower-cased
\* name last handed over.
C4_LastKnownValues ==
    /\ model.session = None => (model.name = sUnknown /\ model.status = sUnknown)
    /\ model.status = (IF lastKnown.status = NoText THEN sUnknown
                       ELSE lastKnown.status)
    /\ model.name = (IF lastKnown.name = NoText THEN sUnknown
                     ELSE LowerCaseForm(lastKnown.name))

\* C4 witness: the attached session's display name has upper-case letters
\* and its status was carried by a later statusChanged.
C4_Witness ==
    /\ model.session = "sA"
    /\ lastKnown.name = dPython3
    /\ lastEvent.kind = "statusChanged"
    /\ lastEvent.sess = "sA"
    /\ lastKnown.status = sBusy

\* C5: whenever the model's session is none, name and status are "unknown"
\* and the type is none.
C5_NoneResets ==
    model.session = None
        => (model.name = sUnknown /\ model.status = sUnknown /\ Type(model) = None)

\* C5 witness: a handler has just set the session to none while a session
\* with a kernel was attached.
C5_Witness ==
    /\ invoked \cap SetterHandlers # {}
    /\ model.session = None
    /\ lastEvent.sess # None
    /\ sessions[lastEvent.sess].kernel # NoKernel
    /\ sessions[lastEvent.sess].status = sBusy

\* C6: every call of the session setter (by the constructor, a focus
\* handler or the update step) emits stateChanged exactly once, and the
\* listener then sees the session, name, status and subscriptions the call
\* leaves behind.
C6_OneEmissionAtEnd ==
    (lastEvent.kind = "constructor" \/ invoked \cap SetterHandlers # {})
        => (/\ Len(model.notified) = 1
            /\ model.notified[1] = Snapshot(model))

\* C6 witness: the update step has set the session that was already
\* attached, leaving name and status as they were, and emitted once.
C6_Witness ==
    /\ lastEvent.kind = "update"
    /\ lastEvent.sess = model.session
    /\ model.session = "sA"
    /\ model.name = LowerCaseForm(dPython3)
    /\ Len(model.notified) = 1

\* C6 witness of a change: a focus handler replaced the attached session by
\* none.
C6_WitnessChange ==
    /\ lastEvent.kind = "shellChanged"
    /\ lastEvent.sess = "sA"
    /\ model.session = None
    /\ Len(model.notified) = 1

\* C7: a click executes "notebook:change-kernel" exactly once when the
\* model's type is "notebook", executes nothing otherwise, and leaves the
\* model and the interactive class as they were.
C7_ClickExecutesForNotebookOnly ==
    [][ lastEvent'.kind = "click"
        => (/\ commandsRun' = (IF Type(model) = "notebook"
                               THEN <<ChangeKernelCommand>> ELSE <<>>)
            /\ SameModelFields(model', model)
            /\ model'.notified = <<>>
            /\ interactive' = interactive) ]_vars

\* C7 witness: a click on the label while a notebook session is attached.
C7_Witness ==
    /\ lastEvent.kind = "click"
    /\ Type(model) = "notebook"
    /\ commandsRun = <<ChangeKernelCommand>>

\* C7 witness of the other case: a click while a console session is attached.
C7_WitnessConsole ==
    /\ lastEvent.kind = "click"
    /\ Type(model) = "console"
    /\ commandsRun = <<>>

\* C8: after the notebook tracker's handler has run the widget has the
\* interactive class, after the console tracker's handler has run it has
\* not, whatever panel (or none) the signal carried.
C8_TrackerHandlersForceClass ==
    /\ "_onNotebookChange" \in invoked => interactive
    /\ "_onConsoleChange" \in invoked => ~interactive

\* C8 witness: the notebook tracker reported no current panel and the class
\* is on although no session is attached.
C8_Witness ==
    /\ "_onNotebookChange" \in invoked
    /\ lastEvent.widget = None
    /\ model.session = None
    /\ interactive

\* C9: once disposed, the widget is connected to none of the three host
\* signals, and a focus event runs no handler and leaves the model's
\* session, name, status and the interactive class as they were.
C9_DisposedIgnoresFocus ==
    [][ /\ disposed' => hostConn' = {}
        /\ (disposed /\ lastEvent'.kind \in FocusEvents)
            => (/\ invoked' = {}
                /\ SameModelFields(model', model)
                /\ model'.notified = <<>>
                /\ interactive' = interactive) ]_vars

\* C9 witness: the shell's current widget changed to a console panel after
\* disposal, while the notebook session stays in the model.
C9_Witness ==
    /\ disposed
    /\ lastEvent.kind = "shellChanged"
    /\ shellCurrent = "conB"
    /\ model.session = "sA"

\* C10: when the session of the focused notebook, attached to the model,
\* reports its kernel changed from a kernel to none, the label of the next
\* render is "Unknown | Unknown".
C10_LabelAfterKernelGone ==
    [][ (/\ lastEvent.kind = "kernelChanged"
         /\ lastEvent.old # NoKernel
         /\ lastEvent.text = NoKernel
         /\ "_onKernelChanged" \in invoked
         /\ shellCurrent \in NotebookPanels
         /\ lastEvent.sess = PanelSession(shellCurrent)
         /\ model.session = lastEvent.sess
         /\ lastEvent'.kind = "update")
        => rendered' = LabelUnknownUnknown ]_vars

\* the title-cased form of each stored name and each status, written out
TitleForm(text) ==
    IF text = sUnknown THEN <<"U","n","k","n","o","w","n">>
    ELSE IF text = sIdle THEN <<"I","d","l","e">>
    ELSE IF text = sBusy THEN <<"B","u","s","y">>
    ELSE IF text = sStarting THEN <<"S","t","a","r","t","i","n","g">>
    ELSE IF text = sReconnecting
        THEN <<"R","e","c","o","n","n","e","c","t","i","n","g">>
    ELSE IF text = sRestarting THEN <<"R","e","s","t","a","r","t","i","n","g">>
    ELSE IF text = sDead THEN <<"D","e","a","d">>
    ELSE IF text = sConnected THEN <<"C","o","n","n","e","c","t","e","d">>
    ELSE IF text = kPython3 THEN <<"P","y","t","h","o","n","3">>
    ELSE IF text = nPython3Display THEN <<"P","y","t","h","o","n"," ","3">>
    ELSE IF text = nNoKernel THEN <<"N","o"," ","K","e","r","n","e","l","!">>
    ELSE IF text = nIr THEN <<"I","r">>
    ELSE IF text = nJulia THEN <<"J","u","l","i","a"," ","1",".","0">>
    ELSE IF text = nSos THEN <<"S","o","s"," "," ","K","e","r","n","e","l">>
    ELSE NoText

\* C11: render of a present model gives "<Title-cased name> | <Title-cased
\* status>" of the model's name and status; render of an absent model gives
\* nothing.
C11_RenderLabel ==
    lastEvent.kind = "render"
        => rendered = (IF model = NoModel THEN NoText
                       ELSE TitleForm(model.name) \o <<" ", "|", " ">>
                                \o TitleForm(model.status))

\* C11 witness: the model holds "python 3" and "busy" and the label rendered
\* is "Python 3 | Busy".
C11_Witness ==
    /\ lastEvent.kind = "render"
    /\ model # NoModel
    /\ model.name = nPython3Display
    /\ model.status = sBusy
    /\ rendered = <<"P","y","t","h","o","n"," ","3"," ","|"," ","B","u","s","y">>

\* C11 witness of the absent model: render gave nothing.
C11_WitnessAbsent ==
    /\ lastEvent.kind = "render"
    /\ model = NoModel
    /\ rendered = NoText

\* C12: after every update request the model's session is the one resolved
\* from the shell's current widget (its session if it is a notebook or
\* console panel, else none) and the widget has the interactive class if and
\* only if the model's type is "notebook".
C12_UpdateResolvesFromShell ==
    "onUpdateRequest" \in invoked
        => (/\ model.session = FocusedPanelSession
            /\ interactive <=> (Type(model) = "notebook"))

\* C12 witness: a tracker handler had attached the notebook session and
\* forced the class on while an editor is the current widget; the update
\* step detached the session and removed the class.
C12_Witness ==
    /\ "onUpdateRequest" \in invoked
    /\ lastEvent.sess = "sA"
    /\ shellCurrent = "editor"
    /\ model.session = None
    /\ ~interactive

\* C13: a kernelChanged of the attached session sets status and name to the
\* new kernel's status and lower-cased name, or both to "unknown" when the
\* new kernel is none; session and subscriptions stay and stateChanged is
\* emitted exactly once.
C13_KernelChangedHandler ==
    [][ (lastEvent'.kind = "kernelChanged" /\ lastEvent'.sess = model.session)
        => (/\ invoked' = {"_onKernelChanged"}
            /\ IF lastEvent'.text # NoKernel
               THEN /\ model'.status = sessions'[lastEvent'.sess].status
                    /\ model'.name = LowerCaseForm(lastEvent'.text)
               ELSE /\ model'.status = sUnknown
                    /\ model'.name = sUnknown
            /\ model'.session = model.session
            /\ model'.statusConn = model.statusConn
            /\ model'.kernelConn = model.kernelConn
            /\ Len(model'.notified) = 1) ]_vars

\* C13 witness: the attached session, with a kernel and busy, reported that
\* its kernel is gone.
C13_Witness ==
    /\ lastEvent.kind = "kernelChanged"
    /\ lastEvent.sess = model.session
    /\ lastEvent.old = kPython3
    /\ lastEvent.text = NoKernel
    /\ sessions[lastEvent.sess].status = sBusy
    /\ model.name = sUnknown
    /\ model.status = sUnknown

\* C13 witness of a present kernel: name and status are the kernel's.
C13_WitnessKernel ==
    /\ lastEvent.kind = "kernelChanged"
    /\ lastEvent.sess = model.session
    /\ lastEvent.text = kPython3
    /\ model.name = kPython3
    /\ model.status = sBusy

\* C14: a statusChanged of the attached session carrying v sets the status
\* to v, leaves name, session, type and subscriptions as they are and emits
\* stateChanged exactly once.
C14_StatusChangedHandler ==
    [][ (lastEvent'.kind = "statusChanged" /\ lastEvent'.sess = model.session)
        => (/\ invoked' = {"_onKernelStatusChanged"}
            /\ model'.status = lastEvent'.text
            /\ model'.name = model.name
            /\ model'.session = model.session
            /\ Type(model') = Type(model)
            /\ model'.statusConn = model.statusConn
            /\ model'.kernelConn = model.kernelConn
            /\ Len(model'.notified) = 1) ]_vars

\* C14 witness: the attached notebook session went from idle to busy.
C14_Witness ==
    /\ lastEvent.kind = "statusChanged"
    /\ lastEvent.sess = "sA"
    /\ model.session = "sA"
    /\ lastEvent.text = sBusy
    /\ model.status = sBusy
    /\ model.name = nPython3Display

\* C15: with one focus change and no further host or session event, the
\* chain stateChanged -> update request -> session set -> stateChanged comes
\* to rest: an update request handled right after another one, when nothing
\* can have changed in between, leaves no update request pending.
C15_UpdateChainStops ==
    [][ (lastEvent.kind = "update" /\ lastEvent'.kind = "update")
        => ~updatePending' ]_vars

ModelHandlers == {"_onKernelStatusChanged", "_onKernelChanged"}

\* C16: after every focus event the component handles, the widget has the
\* interactive class if and only if the model's type is "notebook" (a click
\* would execute the change-kernel command).
C16_ClassMatchesClick ==
    (lastEvent.kind \in FocusEvents /\ invoked # {})
        => (interactive <=> (Type(model) = "notebook"))

\* C17: once the widget is disposed, no session notification runs a handler
\* of the model.
C17_DisposedHoldsNoSubscription ==
    disposed => (invoked \cap ModelHandlers = {})

\* C18: setting the session that is already attached, right after it was
\* attached and with no session event in between, leaves session, name,
\* status and type as they were and the session with exactly one
\* statusChanged and one kernelChanged subscription of the model.
C18_ReattachIdempotent ==
    [][ (/\ lastEvent.kind = "constructor" \/ invoked \cap SetterHandlers # {}
         /\ model.session # None
         /\ invoked' \cap SetterHandlers # {}
         /\ model'.session = model.session)
        => (/\ SameModelFields(model', model)
            /\ Type(model') = Type(model)
            /\ model'.statusConn = {model.session}
            /\ model'.kernelConn = {model.session}) ]_vars

\* C18 witness: a second update request in a row has set the notebook
\* session again.
C18_Witness ==
    /\ lastEvent.kind = "update"
    /\ updateRun = 0
    /\ lastEvent.sess = "sA"
    /\ model.session = "sA"
    /\ model.statusConn = {"sA"}
    /\ model.kernelConn = {"sA"}
    /\ model.name = nPython3Display

====
